---- MODULE Spec2Model ----
(***************************************************************************)
(* T20 World Cup 2026 Monte Carlo simulator (t20_world_cup_simulator.py).  *)
(*                                                                         *)
(* Reals are fixed-point integers, rounded down:                           *)
(*   probabilities           parts per million (0.01 is 10000)             *)
(*   rates and strengths     hundredths (0.80 is 80)                       *)
(*   expected runs (lambda)  1/16000 of a run                              *)
(*   net run rate            twentieths of a run (the code divides by 20)  *)
(*   percentages             thousandths of a percent (100% is 100000)     *)
(* The random module and scipy's poisson are an unseeded ambient source:   *)
(* every draw is a nondeterministic choice, packed in a draw record        *)
(*   [toss, bonus, raw_a, raw_b, u]                                        *)
(* toss = 1 or 2 (random.choice of the two names), bonus = randint(5, 8),  *)
(* raw_a/raw_b the two Poisson samples, u = random.random() in ppm.        *)
(***************************************************************************)
EXTENDS Integers, Sequences, FiniteSets, TLC

VARIABLES
    teams,            \* self.teams: name -> Team
    groups,           \* self.groups: group name -> list of names
    results,          \* self.results: defaultdict, name -> counters (sparse)
    pc,               \* position of the caller / of run_monte_carlo
    call,             \* arguments and draws of the last MatchPredictor call
    ret,              \* value returned by the last MatchPredictor call
    rr,               \* the round robin in progress (one group or sub-group)
    n_simulations,    \* argument of run_monte_carlo
    sim,              \* loop variable of run_monte_carlo
    group_standings,  \* run_single_simulation: group -> sorted standings
    qualified_teams,  \* run_single_simulation: the list handed to Super 8
    semi_finalists,   \* run_single_simulation: Super 8 survivors
    champion,         \* run_single_simulation: knockout winner
    probabilities,    \* value returned by run_monte_carlo
    progress,         \* progress lines printed by run_monte_carlo
    calls,            \* run_monte_carlo calls made on this instance
    passes,           \* run_single_simulation calls made on this instance
    rng               \* the module-level generators of random and numpy, as
                      \* the number of drawing steps taken from them so far

vars == <<teams, groups, results, pc, call, ret, rr, n_simulations, sim,
          group_standings, qualified_teams, semi_finalists, champion,
          probabilities, progress, calls, passes, rng>>

objVars == <<teams, groups, results>>
matchVars == <<call, ret>>
campVars == <<n_simulations, sim, group_standings, qualified_teams,
              semi_finalists, champion, probabilities, progress, calls, passes>>

None == "None"

-----------------------------------------------------------------------------
(* Team registry                                                           *)

Team(name, group, icc_ranking, elo_rating, avg_runs_scored, avg_runs_conceded, win_rate_last_10, key_players_strength, spin_strength, pace_strength) ==
    [name |-> name, group |-> group, icc_ranking |-> icc_ranking,
     elo_rating |-> elo_rating, avg_runs_scored |-> avg_runs_scored,
     avg_runs_conceded |-> avg_runs_conceded,
     win_rate_last_10 |-> win_rate_last_10,
     key_players_strength |-> key_players_strength,
     spin_strength |-> spin_strength, pace_strength |-> pace_strength]

teams_data ==
    << Team("India", "A", 1, 1300, 175, 155, 80, 95, 92, 88),
       Team("Pakistan", "A", 6, 1200, 172, 158, 60, 90, 88, 85),
       Team("United States", "A", 24, 950, 148, 165, 45, 65, 55, 70),
       Team("Netherlands", "A", 16, 1020, 145, 162, 40, 70, 60, 75),
       Team("Namibia", "A", 22, 970, 142, 168, 35, 62, 58, 72),
       Team("Australia", "B", 2, 1280, 170, 157, 70, 92, 75, 90),
       Team("Sri Lanka", "B", 9, 1150, 165, 160, 55, 85, 88, 78),
       Team("Ireland", "B", 13, 1040, 152, 162, 48, 72, 68, 75),
       Team("Zimbabwe", "B", 17, 1000, 148, 165, 42, 68, 70, 72),
       Team("Oman", "B", 20, 980, 140, 170, 38, 60, 65, 68),
       Team("England", "C", 3, 1260, 172, 160, 68, 90, 72, 88),
       Team("West Indies", "C", 5, 1220, 168, 162, 62, 87, 70, 85),
       Team("Scotland", "C", 18, 990, 145, 168, 40, 65, 62, 70),
       Team("Nepal", "C", 19, 985, 142, 170, 38, 63, 72, 65),
       Team("Italy", "C", 25, 920, 135, 175, 30, 55, 58, 62),
       Team("New Zealand", "D", 4, 1240, 168, 158, 58, 88, 78, 87),
       Team("South Africa", "D", 7, 1210, 170, 159, 64, 89, 75, 88),
       Team("Afghanistan", "D", 8, 1180, 162, 161, 56, 83, 90, 75),
       Team("Canada", "D", 23, 960, 138, 172, 36, 60, 55, 68),
       Team("United Arab Emirates", "D", 21, 975, 140, 170, 37, 62, 68, 65) >>

Names == { teams_data[k].name : k \in 1..Len(teams_data) }

initialize_teams ==
    [n \in Names |-> teams_data[CHOOSE k \in 1..Len(teams_data) : teams_data[k].name = n]]

GroupNames == <<"A", "B", "C", "D">>

get_tournament_groups ==
    [g \in {"A", "B", "C", "D"} |->
        CASE g = "A" -> <<"India", "Pakistan", "United States", "Netherlands", "Namibia">>
          [] g = "B" -> <<"Australia", "Sri Lanka", "Ireland", "Zimbabwe", "Oman">>
          [] g = "C" -> <<"England", "West Indies", "Scotland", "Nepal", "Italy">>
          [] g = "D" -> <<"New Zealand", "South Africa", "Afghanistan", "Canada",
                          "United Arab Emirates">>]

Venues == {"neutral", "India", "Sri Lanka"}

-----------------------------------------------------------------------------
(* MatchPredictor                                                          *)

toss_advantage == 103        \* 1.03, in hundredths
ProbMin == 10000             \* 0.01
ProbMax == 990000            \* 0.99
ScoreMin == 100
ScoreMax == 250
BonusMin == 5
BonusMax == 8

Max(x, y) == IF x >= y THEN x ELSE y
Min(x, y) == IF x <= y THEN x ELSE y

\* 10 ** (r / 400) for r = 0, 5, ..., 395, in thousandths
Pow10Table ==
    << 1000, 1029, 1059, 1090, 1122, 1155, 1189, 1223, 1259, 1296,
       1334, 1372, 1413, 1454, 1496, 1540, 1585, 1631, 1679, 1728,
       1778, 1830, 1884, 1939, 1995, 2054, 2113, 2175, 2239, 2304,
       2371, 2441, 2512, 2585, 2661, 2738, 2818, 2901, 2985, 3073,
       3162, 3255, 3350, 3447, 3548, 3652, 3758, 3868, 3981, 4097,
       4217, 4340, 4467, 4597, 4732, 4870, 5012, 5158, 5309, 5464,
       5623, 5788, 5957, 6131, 6310, 6494, 6683, 6879, 7079, 7286,
       7499, 7718, 7943, 8175, 8414, 8660, 8913, 9173, 9441, 9716 >>

\* 10 ** (e / 400) in thousandths, for -2000 <= e <= 2000
Pow10(e) ==
    LET q == e \div 400
        r == e % 400
        m == Pow10Table[(r \div 5) + 1]
    IN  IF q >= 0 THEN m * (10 ^ q) ELSE m \div (10 ^ (0 - q))

\* 1 / (1 + 10 ** (-elo_diff / 400)), in ppm
elo_prob(elo_diff) == 1000000000 \div (1000 + Pow10(0 - elo_diff))

SubcontinentTeams == {"India", "Sri Lanka", "Pakistan", "Bangladesh", "Afghanistan"}

\* the weighted sum with the venue and toss multipliers, before the clamp
base_prob(team_a, team_b, venue, toss_winner) ==
    LET form_prob == 500000 + (team_a.win_rate_last_10 - team_b.win_rate_last_10) * 5000
        rank_prob == 500000 + (team_b.icc_ranking - team_a.icc_ranking) * 20000
        player_prob == 500000 +
            (team_a.key_players_strength - team_b.key_players_strength) * 5000
        weighted == (35 * elo_prob(team_a.elo_rating - team_b.elo_rating)
                     + 25 * form_prob + 25 * rank_prob + 15 * player_prob) \div 100
        at_venue == IF venue \in {"India", "Sri Lanka"} /\ team_a.name \in SubcontinentTeams
                    THEN (weighted * 108) \div 100
                    ELSE weighted
    IN  IF toss_winner = team_a.name THEN (at_venue * toss_advantage) \div 100
        ELSE IF toss_winner = team_b.name THEN (at_venue * 100) \div toss_advantage
        ELSE at_venue

ClampProbBare(p) == p

ClampProb(p) == Max(ProbMin, Min(ProbMax, p))

calculate_win_probability(team_a, team_b, venue, toss_winner) ==
    ClampProb(base_prob(team_a, team_b, venue, toss_winner))

\* expected runs of `bat` against `bowl`, in 1/16000 of a run
Lambda(bat, bowl, venue, spin_edge, bonus) ==
    LET base == bat.avg_runs_scored * bowl.avg_runs_conceded
        adj == IF venue \in {"India", "Sri Lanka"}
               THEN (IF spin_edge THEN 103 ELSE 97)
               ELSE 100
    IN  base * adj + bonus * 16000

\* int(poisson.rvs(lambda)): any natural number when lambda > 0, else 0
PoissonSample(lambda, raw) == IF lambda > 0 THEN raw ELSE 0

ClampScore(s) == Max(ScoreMin, Min(ScoreMax, s))

TieBreakNone(score_a, score_b, win_prob, u) == <<score_a, score_b>>

\* the Super Over of lines 137-143
TieBreak(score_a, score_b, win_prob, u) ==
    IF score_a = score_b
    THEN (IF u < win_prob THEN <<score_a + 1, score_b>> ELSE <<score_a, score_b + 1>>)
    ELSE <<score_a, score_b>>

simulate_match(team_a, team_b, venue, d) ==
    LET toss_winner == IF d.toss = 1 THEN team_a.name ELSE team_b.name
        a_spin == team_a.spin_strength > team_b.spin_strength
        lambda_a == Lambda(team_a, team_b, venue, a_spin,
                           IF toss_winner = team_a.name THEN d.bonus ELSE 0)
        lambda_b == Lambda(team_b, team_a, venue, ~a_spin,
                           IF toss_winner = team_a.name THEN 0 ELSE d.bonus)
        clamped_a == ClampScore(PoissonSample(lambda_a, d.raw_a))
        clamped_b == ClampScore(PoissonSample(lambda_b, d.raw_b))
        win_prob == calculate_win_probability(team_a, team_b, venue, toss_winner)
        s == TieBreak(clamped_a, clamped_b, win_prob, d.u)
    IN  [winner |-> IF s[1] > s[2] THEN team_a.name ELSE team_b.name,
         score_a |-> s[1], score_b |-> s[2]]

-----------------------------------------------------------------------------
(* Round robins: simulate_group_stage and simulate_super_8                 *)

NumPairs(k) == (k * (k - 1)) \div 2

\* the pairs (1-based positions) in the order of
\*   for i in range(k): for j in range(i + 1, k)
RECURSIVE PairsFrom(_, _, _)
PairsFrom(i, j, k) ==
    IF i >= k THEN <<>>
    ELSE IF j > k THEN PairsFrom(i + 1, i + 2, k)
    ELSE <<(<<i, j>>)>> \o PairsFrom(i, j + 1, k)

PairTable == [k \in 2..6 |-> PairsFrom(1, 2, k)]

PairAt(k, m) == PairTable[k][m]

GroupVenue(group_name) == IF group_name \in {"A", "B"} THEN "India" ELSE "Sri Lanka"

ZeroTable(names) == [n \in { names[k] : k \in 1..Len(names) } |-> 0]

\* as PlayGroupMatch, with the else of line 237 missing
PlayGroupMatchNoElse(st, registry, an, bn, venue, d) ==
    LET m == simulate_match(registry[an], registry[bn], venue, d)
        p1 == IF m.winner = an THEN [st.points EXCEPT ![an] = @ + 2] ELSE st.points
    IN  [points |-> [p1 EXCEPT ![bn] = @ + 2],
         nrr |-> [st.nrr EXCEPT ![an] = @ + (m.score_a - m.score_b),
                                ![bn] = @ + (m.score_b - m.score_a)]]

\* one iteration of the inner loop of simulate_group_stage (lines 226-242)
PlayGroupMatch(st, registry, an, bn, venue, d) ==
    LET m == simulate_match(registry[an], registry[bn], venue, d)
        w == IF m.winner = an THEN an ELSE bn
    IN  [points |-> [st.points EXCEPT ![w] = @ + 2],
         nrr |-> [st.nrr EXCEPT ![an] = @ + (m.score_a - m.score_b),
                                ![bn] = @ + (m.score_b - m.score_a)]]

\* one iteration of the inner loop of simulate_super_8 (lines 278-282)
PlaySuper8Match(points, registry, an, bn, d) ==
    LET m == simulate_match(registry[an], registry[bn], "India", d)
    IN  [points EXCEPT ![m.winner] = @ + 2]

KeyBeforeByPoints(x, y) == x[2] > y[2]

\* x sorts strictly before y under key = (x[1], x[2]), reverse = True
KeyBefore(x, y) == x[2] > y[2] \/ (x[2] = y[2] /\ x[3] > y[3])

\* sorted(rows, key = lambda x: (x[1], x[2]), reverse = True); rows are
\* <<name, points, nrr>>. Python's sort is stable, also with reverse = True.
SortedRows(rows) ==
    LET n == Len(rows)
        pos(i) == 1 + Cardinality({ j \in 1..n :
                        \/ KeyBefore(rows[j], rows[i])
                        \/ (~KeyBefore(rows[i], rows[j]) /\ j < i) })
    IN  [p \in 1..n |-> rows[CHOOSE i \in 1..n : pos(i) = p]]

\* lines 245-249
GroupStandings(team_names, st) ==
    SortedRows([k \in 1..Len(team_names) |->
                   <<team_names[k], st.points[team_names[k]], st.nrr[team_names[k]]>>])

\* as TopTwoByPoints, without the sort: the first two of the sub-group
TopTwoUnsorted(group, points) == <<group[1], group[2]>>

\* lines 285-286: sorted(group, key = points, reverse = True)[:2]
TopTwoByPoints(group, points) ==
    LET sorted_teams == SortedRows([k \in 1..Len(group) |-> <<group[k], points[group[k]], 0>>])
    IN  <<sorted_teams[1][1], sorted_teams[2][1]>>

\* as TopTwo, with index 0 written twice
TopTwoSameRow(standings) == <<standings[1][1], standings[1][1]>>

\* lines 333: [standings[0][0], standings[1][0]]
TopTwo(standings) == <<standings[1][1], standings[2][1]>>

-----------------------------------------------------------------------------
(* Stages of a pass, as functions of the draws                             *)

RECURSIVE GroupFold(_, _, _, _, _, _)
GroupFold(st, registry, names, venue, draw_at, m) ==
    IF m > NumPairs(Len(names)) THEN st
    ELSE LET p == PairAt(Len(names), m)
         IN  GroupFold(PlayGroupMatch(st, registry, names[p[1]], names[p[2]], venue,
                                      draw_at[m]),
                       registry, names, venue, draw_at, m + 1)

\* simulate_group_stage; draw_at[g][m] is the draw of the m-th match of group g
simulate_group_stage(registry, grps, draw_at) ==
    [g \in DOMAIN grps |->
        GroupStandings(grps[g],
            GroupFold([points |-> ZeroTable(grps[g]), nrr |-> ZeroTable(grps[g])],
                      registry, grps[g], GroupVenue(g), draw_at[g], 1))]

\* run_single_simulation, lines 330-333
ExtractQualified(standings_of) ==
    TopTwo(standings_of["A"]) \o TopTwo(standings_of["B"])
        \o TopTwo(standings_of["C"]) \o TopTwo(standings_of["D"])

RECURSIVE Super8Fold(_, _, _, _, _)
Super8Fold(points, registry, group, draw_at, m) ==
    IF m > NumPairs(Len(group)) THEN points
    ELSE LET p == PairAt(Len(group), m)
         IN  Super8Fold(PlaySuper8Match(points, registry, group[p[1]], group[p[2]],
                                        draw_at[m]),
                        registry, group, draw_at, m + 1)

\* simulate_super_8 after the shuffle; draw_at[h][m] is the draw of the m-th
\* match of sub-group h
simulate_super_8(registry, shuffled, draw_at) ==
    LET group_1 == SubSeq(shuffled, 1, 4)
        group_2 == SubSeq(shuffled, 5, Len(shuffled))
    IN  TopTwoByPoints(group_1, Super8Fold(ZeroTable(group_1), registry, group_1,
                                            draw_at[1], 1))
        \o TopTwoByPoints(group_2, Super8Fold(ZeroTable(group_2), registry, group_2,
                                               draw_at[2], 1))

\* as SemiFinalPair, with the bracket crossed: positions k and k + 2
SemiFinalPairCrossed(semis, k) == <<semis[k], semis[k + 2]>>

\* lines 298-299 and 305-306: semifinal 1 is semis[0] v semis[1], semifinal 2 is
\* semis[2] v semis[3]
SemiFinalPair(semis, k) == <<semis[2 * k - 1], semis[2 * k]>>

\* one knockout match, lines 297-301, 304-308, 311-316: always in "India"
KnockoutMatch(registry, pair, d) ==
    simulate_match(registry[pair[1]], registry[pair[2]], "India", d).winner

simulate_knockout(registry, semis, d1, d2, d3) ==
    LET winner_sf1 == KnockoutMatch(registry, SemiFinalPair(semis, 1), d1)
        winner_sf2 == KnockoutMatch(registry, SemiFinalPair(semis, 2), d2)
    IN  KnockoutMatch(registry, <<winner_sf1, winner_sf2>>, d3)

-----------------------------------------------------------------------------
(* Aggregation (run_monte_carlo)                                           *)

ProgressEvery == 1000

Fields == {"group_winner", "group_runner_up", "super_8", "semi_final", "final", "champion"}

\* the default factory of self.results
ZeroCounts == [f \in Fields |-> 0]

\* self.results[team][field] += 1 on the defaultdict
Bump(res, team, field) ==
    IF team \in DOMAIN res
    THEN [res EXCEPT ![team][field] = @ + 1]
    ELSE [n \in DOMAIN res \cup {team} |->
             IF n = team THEN [ZeroCounts EXCEPT ![field] = 1] ELSE res[n]]

RECURSIVE BumpAll(_, _, _, _)
BumpAll(res, list, field, k) ==
    IF k > Len(list) THEN res
    ELSE BumpAll(Bump(res, list[k], field), list, field, k + 1)

RECURSIVE BumpGroups(_, _, _)
BumpGroups(res, standings_of, k) ==
    IF k > Len(GroupNames) THEN res
    ELSE LET standings == standings_of[GroupNames[k]]
         IN  BumpGroups(Bump(Bump(res, standings[1][1], "group_winner"),
                             standings[2][1], "group_runner_up"),
                        standings_of, k + 1)

\* as Aggregated, without the semi-finalist loop of lines 369-370
AggregatedNoSemis(res, standings_of, super_8_teams, semis, champ) ==
    BumpGroups(BumpAll(Bump(res, champ, "champion"), super_8_teams, "super_8", 1),
               standings_of, 1)

\* as Aggregated, with the Super 8 loop of line 373 running over the
\* semi-finalists
AggregatedSemisTwice(res, standings_of, super_8_teams, semis, champ) ==
    BumpGroups(BumpAll(BumpAll(Bump(res, champ, "champion"), semis, "semi_final", 1),
                       semis, "super_8", 1),
               standings_of, 1)

\* lines 365-381
Aggregated(res, standings_of, super_8_teams, semis, champ) ==
    BumpGroups(BumpAll(BumpAll(Bump(res, champ, "champion"), semis, "semi_final", 1),
                       super_8_teams, "super_8", 1),
               standings_of, 1)

\* as Pct, with floor division: (count // n_simulations) * 100
PctFloorDiv(count, n) == (count \div n) * 100000

\* (count / n_simulations) * 100, in thousandths of a percent
Pct(count, n) == (count * 100000) \div n

\* lines 387-396
Probabilities(res, n) ==
    [team \in DOMAIN res |->
        [group_winner |-> Pct(res[team].group_winner, n),
         group_runner_up |-> Pct(res[team].group_runner_up, n),
         super_8 |-> Pct(res[team].super_8, n),
         semi_final |-> Pct(res[team].semi_final, n),
         final |-> Pct(res[team].champion, n) * 2,
         champion |-> Pct(res[team].champion, n)]]

-----------------------------------------------------------------------------
(* State after construction (T20WorldCup2026Simulator.__init__)            *)

EmptyResults == [n \in {} |-> 0]

NoCall == [op |-> "none"]
NoRoundRobin == [stage |-> "none"]

InitObject ==
    /\ teams = initialize_teams
    /\ groups = get_tournament_groups
    /\ results = EmptyResults
    /\ rng = 0

InitCampaignVars ==
    /\ n_simulations = 0
    /\ sim = 0
    /\ group_standings = <<>>
    /\ qualified_teams = <<>>
    /\ semi_finalists = <<>>
    /\ champion = None
    /\ probabilities = EmptyResults
    /\ progress = <<>>
    /\ calls = 0
    /\ passes = 0

-----------------------------------------------------------------------------
(* MatchSpec: single calls of the two MatchPredictor methods               *)

\* Team objects beyond the registry: the methods take any Team
ExtremeTeams ==
    { Team("Strong", "X", 1, 1700, 200, 120, 100, 100, 100, 100),
      Team("Weak", "X", 60, 900, 100, 200, 0, 0, 0, 0) }

RegistryTeams == { teams[n] : n \in DOMAIN teams }

SampleNames == {"India", "Pakistan", "Sri Lanka", "Namibia", "Italy"}

RawScores == {99, 100, 175, 250, 251}
Us == {0, 500000, 999999}

Draws == [toss : {1, 2}, bonus : BonusMin..BonusMax,
          raw_a : RawScores, raw_b : RawScores, u : Us]

MatchInit ==
    /\ InitObject
    /\ InitCampaignVars
    /\ pc = "idle"
    /\ call = NoCall
    /\ ret = None
    /\ rr = NoRoundRobin

CallWinProbability ==
    /\ pc = "idle"
    /\ \E a \in RegistryTeams \cup ExtremeTeams, b \in RegistryTeams \cup ExtremeTeams :
       \E venue \in Venues, toss_winner \in {a.name, b.name, None} :
          /\ a.name # b.name
          /\ call' = [op |-> "calculate_win_probability", team_a |-> a, team_b |-> b,
                      venue |-> venue, toss_winner |-> toss_winner]
          /\ ret' = calculate_win_probability(a, b, venue, toss_winner)
    /\ pc' = "returned"
    /\ UNCHANGED <<rng, objVars, rr, campVars>>

CallSimulateMatch ==
    /\ pc = "idle"
    /\ \E an \in SampleNames, bn \in SampleNames, venue \in Venues, d \in Draws :
          /\ an # bn
          /\ call' = [op |-> "simulate_match", team_a |-> teams[an], team_b |-> teams[bn],
                      venue |-> venue, d |-> d]
          /\ ret' = simulate_match(teams[an], teams[bn], venue, d)
    /\ pc' = "returned"
    /\ rng' = rng + 1
    /\ UNCHANGED <<objVars, rr, campVars>>

MatchNext == CallWinProbability \/ CallSimulateMatch

MatchSpec == MatchInit /\ [][MatchNext]_vars

IsProbCall == call.op = "calculate_win_probability"
IsMatchCall == call.op = "simulate_match"

\* C1: calculate_win_probability returns p with 0.01 <= p <= 0.99 for every
\* pair, venue and toss winner, whatever the weighted sum and multipliers are.
C1_WinProbabilityClamped ==
    IsProbCall => (ProbMin <= ret /\ ret <= ProbMax)

\* a call whose unclamped product exceeds 0.99 and one below 0.01 both occur;
\* this one is the call above the range, returned as 0.99
C1_Witness ==
    /\ IsProbCall
    /\ base_prob(call.team_a, call.team_b, call.venue, call.toss_winner) > ProbMax
    /\ ret = ProbMax

C1_WitnessLow ==
    /\ IsProbCall
    /\ base_prob(call.team_a, call.team_b, call.venue, call.toss_winner) < ProbMin
    /\ ret = ProbMin

\* C2: both scores returned by simulate_match lie in 100..250, also after the
\* tie-break step.
C2_ScoresInRange ==
    IsMatchCall => (/\ ScoreMin <= ret.score_a /\ ret.score_a <= ScoreMax
                    /\ ScoreMin <= ret.score_b /\ ret.score_b <= ScoreMax)

TieBreakApplied == IsMatchCall /\ ClampScore(call.d.raw_a) = ClampScore(call.d.raw_b)

\* C3: the winner returned by simulate_match is a or b, its score is strictly
\* greater than the other side's, and the two scores are never equal.
C3_WinnerHasHigherScore ==
    IsMatchCall =>
        /\ ret.winner \in {call.team_a.name, call.team_b.name}
        /\ ret.score_a # ret.score_b
        /\ (ret.winner = call.team_a.name => ret.score_a > ret.score_b)
        /\ (ret.winner = call.team_b.name => ret.score_b > ret.score_a)

\* a match decided by the Super Over, won by the second side
C3_Witness ==
    /\ TieBreakApplied
    /\ ret.winner = call.team_b.name
    /\ ret.score_b = ret.score_a + 1

-----------------------------------------------------------------------------
(* RoundRobinSpec: one round robin at a time, match by match               *)

\* outcomes of random.shuffle on the 8 qualifiers: new position -> old position
Shuffles ==
    { <<1, 2, 3, 4, 5, 6, 7, 8>>,
      <<1, 3, 5, 7, 2, 4, 6, 8>> }

Shuffled(list, perm) == [k \in 1..Len(list) |-> list[perm[k]]]

SampleQualified ==
    { <<"India", "Pakistan", "Australia", "Sri Lanka",
        "England", "West Indies", "New Zealand", "South Africa">> }

\* the first-listed side loses by 1, ties or wins by 2; a tie goes to the
\* side calculate_win_probability favours
RRDraws == [toss : {1, 2}, bonus : {BonusMin}, raw_a : {150, 151, 153},
            raw_b : {151}, u : {500000}]

RRInit ==
    /\ InitObject
    /\ InitCampaignVars
    /\ pc = "start"
    /\ call = NoCall
    /\ ret = None
    /\ rr = NoRoundRobin

\* simulate_group_stage, loop body for one group: lines 219-221
StartGroup ==
    /\ pc = "start"
    /\ \E g \in DOMAIN groups :
          rr' = [stage |-> "group", group_name |-> g, names |-> groups[g], m |-> 0,
                 st |-> [points |-> ZeroTable(groups[g]), nrr |-> ZeroTable(groups[g])],
                 played |-> <<>>, standings |-> <<>>, qualified |-> <<>>]
    /\ pc' = "group_matches"
    /\ UNCHANGED <<rng, objVars, matchVars, campVars>>

\* lines 224-242, one (i, j)
GroupMatchStep ==
    /\ pc = "group_matches"
    /\ rr.m < NumPairs(Len(rr.names))
    /\ \E d \in RRDraws :
          LET p == PairAt(Len(rr.names), rr.m + 1)
          IN  rr' = [rr EXCEPT !.m = @ + 1,
                               !.played = Append(@, <<rr.names[p[1]], rr.names[p[2]]>>),
                               !.st = PlayGroupMatch(rr.st, teams, rr.names[p[1]],
                                                     rr.names[p[2]],
                                                     GroupVenue(rr.group_name), d)]
    /\ rng' = rng + 1
    /\ UNCHANGED <<objVars, pc, matchVars, campVars>>

\* lines 245-251
GroupSortStep ==
    /\ pc = "group_matches"
    /\ rr.m = NumPairs(Len(rr.names))
    /\ rr' = [rr EXCEPT !.standings = GroupStandings(rr.names, rr.st)]
    /\ pc' = "group_sorted"
    /\ UNCHANGED <<rng, objVars, matchVars, campVars>>

\* run_single_simulation, lines 332-333, for this group
GroupQualifyStep ==
    /\ pc = "group_sorted"
    /\ rr' = [rr EXCEPT !.qualified = TopTwo(rr.standings)]
    /\ pc' = "done"
    /\ UNCHANGED <<rng, objVars, matchVars, campVars>>

\* simulate_super_8, lines 266-270 and the first pass of line 272
StartSuper8 ==
    /\ pc = "start"
    /\ \E q \in SampleQualified, perm \in Shuffles :
          LET sh == Shuffled(q, perm)
          IN  rr' = [stage |-> "super8", qualified |-> sh, sub |-> 1,
                     names |-> SubSeq(sh, 1, 4), m |-> 0,
                     points |-> ZeroTable(SubSeq(sh, 1, 4)),
                     played |-> <<>>, semi_finalists |-> <<>>]
    /\ pc' = "super8_matches"
    /\ rng' = rng + 1
    /\ UNCHANGED <<objVars, matchVars, campVars>>

\* lines 276-282, one (i, j)
Super8MatchStep ==
    /\ pc = "super8_matches"
    /\ rr.m < NumPairs(Len(rr.names))
    /\ \E d \in RRDraws :
          LET p == PairAt(Len(rr.names), rr.m + 1)
          IN  rr' = [rr EXCEPT !.m = @ + 1,
                               !.played = Append(@, <<rr.names[p[1]], rr.names[p[2]]>>),
                               !.points = PlaySuper8Match(rr.points, teams,
                                                          rr.names[p[1]], rr.names[p[2]], d)]
    /\ rng' = rng + 1
    /\ UNCHANGED <<objVars, pc, matchVars, campVars>>

\* lines 285-286, then the next sub-group or the return of line 288
Super8SortStep ==
    /\ pc = "super8_matches"
    /\ rr.m = NumPairs(Len(rr.names))
    /\ LET semis == rr.semi_finalists \o TopTwoByPoints(rr.names, rr.points)
       IN  IF rr.sub = 1
           THEN /\ rr' = [rr EXCEPT !.sub = 2, !.names = SubSeq(rr.qualified, 5, 8),
                                    !.m = 0, !.played = <<>>,
                                    !.points = ZeroTable(SubSeq(rr.qualified, 5, 8)),
                                    !.semi_finalists = semis]
                /\ pc' = pc
           ELSE /\ rr' = [rr EXCEPT !.semi_finalists = semis]
                /\ pc' = "done"
    /\ UNCHANGED <<rng, objVars, matchVars, campVars>>

RRNext ==
    \/ StartGroup
    \/ GroupMatchStep
    \/ GroupSortStep
    \/ GroupQualifyStep
    \/ StartSuper8
    \/ Super8MatchStep
    \/ Super8SortStep

RoundRobinSpec == RRInit /\ [][RRNext]_vars

InRoundRobin == rr.stage \in {"group", "super8"}

RRPoints == IF rr.stage = "group" THEN rr.st.points ELSE rr.points

RECURSIVE SumOver(_, _)
SumOver(f, S) ==
    IF S = {} THEN 0
    ELSE LET x == CHOOSE y \in S : TRUE IN f[x] + SumOver(f, S \ {x})

NameSet(list) == { list[k] : k \in 1..Len(list) }

RoundRobinComplete == InRoundRobin /\ rr.m = NumPairs(Len(rr.names))

\* the matches played so far are distinct unordered pairs of the round robin,
\* each worth 2 points; a complete round robin has played every pair
PairsOnceAndPoints ==
    InRoundRobin =>
        /\ Len(rr.played) = rr.m
        /\ \A x \in 1..Len(rr.played) :
              /\ rr.played[x][1] # rr.played[x][2]
              /\ {rr.played[x][1], rr.played[x][2]} \subseteq NameSet(rr.names)
        /\ \A x \in 1..Len(rr.played), y \in 1..Len(rr.played) :
              x # y => {rr.played[x][1], rr.played[x][2]} # {rr.played[y][1], rr.played[y][2]}
        /\ SumOver(RRPoints, DOMAIN RRPoints) = 2 * rr.m
        /\ (RoundRobinComplete =>
              /\ \A a \in NameSet(rr.names), b \in NameSet(rr.names) :
                    a # b => \E x \in 1..Len(rr.played) :
                                {rr.played[x][1], rr.played[x][2]} = {a, b}
              /\ rr.m = (Len(rr.names) * (Len(rr.names) - 1)) \div 2
              /\ (Len(rr.names) = 5 => rr.m = 10 /\ SumOver(RRPoints, DOMAIN RRPoints) = 20)
              /\ (Len(rr.names) = 4 => rr.m = 6 /\ SumOver(RRPoints, DOMAIN RRPoints) = 12))

\* a match gives 2 points to exactly one of the two sides and none to others
OneSideGetsTwo ==
    (InRoundRobin /\ rr'.stage = rr.stage /\ rr'.m = rr.m + 1) =>
        LET pts == RRPoints
            pts2 == IF rr.stage = "group" THEN rr'.st.points ELSE rr'.points
            pair == rr'.played[rr'.m]
        IN  /\ \E w \in {pair[1], pair[2]} :
                 /\ pts2[w] = pts[w] + 2
                 /\ \A n \in DOMAIN pts : n # w => pts2[n] = pts[n]

\* C9: in every round robin (a group of 5, a Super 8 sub-group of 4) every
\* unordered pair meets exactly once, exactly one of the two gets 2 points per
\* match, and the points sum to 2 * C(k, 2): 10 matches, 20 points for k = 5.
C9_RoundRobinPoints == []PairsOnceAndPoints /\ [][OneSideGetsTwo]_vars

\* a complete group of 5 and (C9_WitnessSuper8) a complete sub-group of 4
C9_Witness ==
    /\ RoundRobinComplete
    /\ rr.stage = "group"
    /\ Len(rr.played) = 10
    /\ SumOver(RRPoints, DOMAIN RRPoints) = 20

C9_WitnessSuper8 ==
    /\ RoundRobinComplete
    /\ rr.stage = "super8"
    /\ rr.sub = 2
    /\ Len(rr.played) = 6
    /\ SumOver(RRPoints, DOMAIN RRPoints) = 12

\* row x is not after row y in (points descending, differential descending)
NotBelow(x, y) == x[2] > y[2] \/ (x[2] = y[2] /\ x[3] >= y[3])

\* C10: the standings of a group are ordered by points descending and, among
\* equal points, by differential descending; the two qualifiers taken from the
\* group are the first and second of that ordering, in that order, and no
\* other competitor of the group has more points than a qualifier, or equal
\* points and a larger differential.
C10_StandingsOrdered ==
    (rr.stage = "group" /\ pc \in {"group_sorted", "done"}) =>
        LET s == rr.standings
            row(n) == <<n, rr.st.points[n], rr.st.nrr[n]>>
        IN  /\ Len(s) = Len(rr.names)
            /\ \A n \in NameSet(rr.names) : \E k \in 1..Len(s) : s[k] = row(n)
            /\ \A x \in 1..Len(s), y \in 1..Len(s) : x < y => NotBelow(s[x], s[y])
            /\ (pc = "done" =>
                  /\ rr.qualified = <<s[1][1], s[2][1]>>
                  /\ \A n \in NameSet(rr.names) \ NameSet(rr.qualified) :
                     \A k \in 1..2 : NotBelow(row(rr.qualified[k]), row(n)))

\* a group whose second and third rows have equal points, split by the
\* differential
C10_Witness ==
    /\ rr.stage = "group"
    /\ pc = "done"
    /\ rr.standings[2][2] = rr.standings[3][2]
    /\ rr.standings[2][3] > rr.standings[3][3]
    /\ rr.qualified[2] = rr.standings[2][1]

-----------------------------------------------------------------------------
(* CampaignSpec: run_monte_carlo, called any number of times on one        *)
(* simulator, a pass advancing stage by stage                              *)

MaxPasses == 2

\* within a stage of a pass every match is played under the same draw: the
\* first-listed side loses by 10, wins by 10, or ties and the Super Over goes
\* to the side calculate_win_probability favours
CampDraws == [toss : {1}, bonus : {BonusMin}, raw_a : {150, 160, 170},
              raw_b : {160}, u : {500000}]

SameDraw(d) == [m \in 1..10 |-> d]

CampaignInit ==
    /\ InitObject
    /\ InitCampaignVars
    /\ pc = "idle"
    /\ call = NoCall
    /\ ret = None
    /\ rr = NoRoundRobin

\* run_monte_carlo(n): entry, lines 354-356
RunMonteCarlo ==
    /\ pc = "idle"
    /\ \E n \in 1..MaxPasses :
          /\ passes + n <= MaxPasses
          /\ n_simulations' = n
    /\ sim' = 0
    /\ calls' = calls + 1
    /\ pc' = "loop"
    /\ UNCHANGED <<rng, objVars, matchVars, rr, group_standings, qualified_teams,
                   semi_finalists, champion, probabilities, progress, passes>>

\* lines 358-362 and run_single_simulation lines 327-333
PassGroupStageOver(D) ==
    /\ pc = "loop"
    /\ sim < n_simulations
    /\ progress' = IF (sim + 1) % ProgressEvery = 0
                   THEN Append(progress, [shown |-> sim + 1, aggregated |-> sim])
                   ELSE progress
    /\ \E d \in D :
          LET standings_of ==
                  simulate_group_stage(teams, groups, [g \in DOMAIN groups |-> SameDraw(d)])
          IN  /\ group_standings' = standings_of
              /\ qualified_teams' = ExtractQualified(standings_of)
    /\ passes' = passes + 1
    /\ pc' = "super8"
    /\ rng' = rng + 1
    /\ UNCHANGED <<objVars, matchVars, rr, n_simulations, sim, semi_finalists,
                   champion, probabilities, calls>>

PassGroupStage == PassGroupStageOver(CampDraws)

\* run_single_simulation line 336; random.shuffle reorders the caller's list
PassSuper8Over(S, D) ==
    /\ pc = "super8"
    /\ \E perm \in S, d \in D :
          LET shuffled == Shuffled(qualified_teams, perm)
          IN  /\ qualified_teams' = shuffled
              /\ semi_finalists' =
                    simulate_super_8(teams, shuffled, [h \in 1..2 |-> SameDraw(d)])
    /\ pc' = "knockout"
    /\ rng' = rng + 1
    /\ UNCHANGED <<objVars, matchVars, rr, n_simulations, sim, group_standings,
                   champion, probabilities, progress, calls, passes>>

PassSuper8 == PassSuper8Over(Shuffles, CampDraws)

\* run_single_simulation line 339
PassKnockoutOver(D) ==
    /\ pc = "knockout"
    /\ \E d \in D :
          champion' = simulate_knockout(teams, semi_finalists, d, d, d)
    /\ pc' = "aggregate"
    /\ rng' = rng + 1
    /\ UNCHANGED <<objVars, matchVars, rr, n_simulations, sim, group_standings,
                   qualified_teams, semi_finalists, probabilities, progress, calls,
                   passes>>

PassKnockout == PassKnockoutOver(CampDraws)

\* run_monte_carlo lines 365-381; the pass's result is dead afterwards
PassAggregate ==
    /\ pc = "aggregate"
    /\ results' = Aggregated(results, group_standings, qualified_teams,
                             semi_finalists, champion)
    /\ sim' = sim + 1
    /\ group_standings' = <<>>
    /\ qualified_teams' = <<>>
    /\ semi_finalists' = <<>>
    /\ champion' = None
    /\ pc' = "loop"
    /\ UNCHANGED <<rng, teams, groups, matchVars, rr, n_simulations, probabilities,
                   progress, calls, passes>>

\* lines 383-398
ReturnProbabilities ==
    /\ pc = "loop"
    /\ sim = n_simulations
    /\ probabilities' = Probabilities(results, n_simulations)
    /\ pc' = "idle"
    /\ UNCHANGED <<rng, objVars, matchVars, rr, n_simulations, sim, group_standings,
                   qualified_teams, semi_finalists, champion, progress, calls, passes>>

CampaignNext ==
    \/ RunMonteCarlo
    \/ PassGroupStage
    \/ PassSuper8
    \/ PassKnockout
    \/ PassAggregate
    \/ ReturnProbabilities

CampaignSpec == CampaignInit /\ [][CampaignNext]_vars

Count(res, team, field) == IF team \in DOMAIN res THEN res[team][field] ELSE 0

SumField(res, field) == SumOver([t \in DOMAIN res |-> res[t][field]], DOMAIN res)

Occurrences(list, x) == Cardinality({ k \in 1..Len(list) : list[k] = x })

Returned == pc = "idle" /\ calls >= 1

FirstCall == calls = 1

\* passes whose result has been added to self.results
AggregatedPasses == IF pc \in {"super8", "knockout", "aggregate"} THEN passes - 1 ELSE passes

\* C4: after run_monte_carlo(N) on a fresh simulator every field of every
\* record of the returned mapping, the derived 'final' included, is in [0, 100].
C4_PercentagesInRange ==
    (Returned /\ FirstCall) =>
        \A t \in DOMAIN probabilities : \A f \in Fields :
            0 <= probabilities[t][f] /\ probabilities[t][f] <= 100000

\* C5: the mapping returned by run_monte_carlo(N) has exactly one record for
\* each of the 20 registry competitors and no other key.
C5_EveryCompetitorPresent ==
    Returned => DOMAIN probabilities = DOMAIN teams

\* C6: at the start of every run_monte_carlo call, a second call on the same
\* instance included, every counter of every competitor is zero, and at the
\* end of the call every counter is a non-negative integer <= N.
C6_CountersStartAtZero ==
    /\ (pc = "loop" /\ sim = 0) =>
          \A t \in DOMAIN results : \A f \in Fields : results[t][f] = 0
    /\ Returned =>
          \A t \in DOMAIN results : \A f \in Fields :
              0 <= results[t][f] /\ results[t][f] <= n_simulations

\* the counter sums after the passes aggregated so far; the loop of a first
\* call has aggregated sim passes, and a call returns after N iterations
CounterSums ==
    /\ SumField(results, "champion") = AggregatedPasses
    /\ SumField(results, "semi_final") = 4 * AggregatedPasses
    /\ SumField(results, "super_8") = 8 * AggregatedPasses
    /\ SumField(results, "group_winner") = 4 * AggregatedPasses
    /\ SumField(results, "group_runner_up") = 4 * AggregatedPasses
    /\ (FirstCall => AggregatedPasses = sim)
    /\ (Returned => sim = n_simulations)
    /\ ((Returned /\ FirstCall) => passes = n_simulations)

\* the aggregation after a pass adds to each competitor's counters its number
\* of occurrences in the pass's result
AggregationStep ==
    (pc = "aggregate" /\ pc' = "loop") =>
        /\ sim' = sim + 1
        /\ Len(semi_finalists) = 4
        /\ Len(qualified_teams) = 8
        /\ \A t \in DOMAIN teams :
              /\ Count(results', t, "champion") =
                    Count(results, t, "champion") + (IF t = champion THEN 1 ELSE 0)
              /\ Count(results', t, "semi_final") =
                    Count(results, t, "semi_final") + Occurrences(semi_finalists, t)
              /\ Count(results', t, "super_8") =
                    Count(results, t, "super_8") + Occurrences(qualified_teams, t)
              /\ Count(results', t, "group_winner") =
                    Count(results, t, "group_winner")
                    + Cardinality({ g \in DOMAIN group_standings :
                                      group_standings[g][1][1] = t })
              /\ Count(results', t, "group_runner_up") =
                    Count(results, t, "group_runner_up")
                    + Cardinality({ g \in DOMAIN group_standings :
                                      group_standings[g][2][1] = t })

\* C7: run_monte_carlo(N) runs N passes; each adds 1 to champion of the pass's
\* champion, to semi_final of its 4 survivors, to super_8 of its 8 qualifiers,
\* to group_winner and group_runner_up of each group's first and second; after
\* k passes the sums are champion = k, semi_final = 4k, super_8 = 8k,
\* group_winner = 4k, group_runner_up = 4k.
C7_CountersPerPass == []CounterSums /\ [][AggregationStep]_vars

\* a first campaign that has aggregated two passes
C7_Witness ==
    /\ FirstCall
    /\ pc = "loop"
    /\ sim = 2
    /\ SumField(results, "super_8") = 16
    /\ SumField(results, "champion") = 2

AbsDiff(x, y) == IF x >= y THEN x - y ELSE y - x

\* C8: after run_monte_carlo(N) on a fresh simulator the champion counters sum
\* to exactly N and the champion percentages sum to 100% within 1%.
C8_ChampionPercentagesSum ==
    (Returned /\ FirstCall) =>
        /\ SumField(results, "champion") = n_simulations
        /\ AbsDiff(SumField(probabilities, "champion"), 100000) <= 1000

\* a campaign of two passes won by two different competitors
C8_Witness ==
    /\ Returned
    /\ FirstCall
    /\ n_simulations = 2
    /\ \E t \in DOMAIN probabilities, u \in DOMAIN probabilities :
          t # u /\ probabilities[t].champion = 50000 /\ probabilities[u].champion = 50000

-----------------------------------------------------------------------------
(* The lists a pass hands from stage to stage                              *)

Distinct(list) == \A x \in 1..Len(list), y \in 1..Len(list) : x # y => list[x] # list[y]

InPass == pc \in {"super8", "knockout", "aggregate"}

\* C11: in every pass the qualifier list handed to the secondary stage has
\* exactly 8 distinct competitors, two from each of the four groups, and
\* simulate_super_8 returns exactly 4 distinct survivors, all of them members
\* of that list.
C11_EightQualifiersFourSurvivors ==
    /\ InPass =>
          /\ Len(qualified_teams) = 8
          /\ Distinct(qualified_teams)
          /\ \A g \in DOMAIN groups :
                Cardinality(NameSet(qualified_teams) \cap NameSet(groups[g])) = 2
    /\ pc \in {"knockout", "aggregate"} =>
          /\ Len(semi_finalists) = 4
          /\ Distinct(semi_finalists)
          /\ NameSet(semi_finalists) \subseteq NameSet(qualified_teams)

\* a pass after a reordering shuffle whose survivors are not the first four
\* of the list
C11_Witness ==
    /\ pc = "knockout"
    /\ qualified_teams # ExtractQualified(group_standings)
    /\ NameSet(semi_finalists) # NameSet(SubSeq(qualified_teams, 1, 4))
    /\ Cardinality(NameSet(semi_finalists)) = 4

-----------------------------------------------------------------------------
(* simulate_knockout, match by match                                       *)

\* survivor lists: every ordering of four of the sample competitors
SampleSemis ==
    { q \in [1..4 -> SampleNames] : \A x \in 1..4, y \in 1..4 : x # y => q[x] # q[y] }

\* lost by ten, won by ten, or level scores with the tie-break going each way
KODraws == [toss : {1, 2}, bonus : {BonusMin}, raw_a : {150, 160, 170},
            raw_b : {160}, u : {0, 999999}]

KnockoutInit == RRInit

\* simulate_knockout(semi_finalists): entry, line 290
StartKnockout ==
    /\ pc = "start"
    /\ \E q \in SampleSemis :
          rr' = [stage |-> "knockout", semi_finalists |-> q, draws |-> <<>>,
                 winner_sf1 |-> None, winner_sf2 |-> None, champion |-> None]
    /\ pc' = "semi_final_1"
    /\ UNCHANGED <<rng, objVars, matchVars, campVars>>

\* lines 297-301
SemiFinal1 ==
    /\ pc = "semi_final_1"
    /\ \E d \in KODraws :
          rr' = [rr EXCEPT !.draws = Append(@, d),
                           !.winner_sf1 = KnockoutMatch(teams,
                                              SemiFinalPair(rr.semi_finalists, 1), d)]
    /\ pc' = "semi_final_2"
    /\ rng' = rng + 1
    /\ UNCHANGED <<objVars, matchVars, campVars>>

\* lines 304-308
SemiFinal2 ==
    /\ pc = "semi_final_2"
    /\ \E d \in KODraws :
          rr' = [rr EXCEPT !.draws = Append(@, d),
                           !.winner_sf2 = KnockoutMatch(teams,
                                              SemiFinalPair(rr.semi_finalists, 2), d)]
    /\ pc' = "final"
    /\ rng' = rng + 1
    /\ UNCHANGED <<objVars, matchVars, campVars>>

\* lines 311-318
Final ==
    /\ pc = "final"
    /\ \E d \in KODraws :
          rr' = [rr EXCEPT !.draws = Append(@, d),
                           !.champion = KnockoutMatch(teams,
                                            <<rr.winner_sf1, rr.winner_sf2>>, d)]
    /\ pc' = "done"
    /\ rng' = rng + 1
    /\ UNCHANGED <<objVars, matchVars, campVars>>

KnockoutNext ==
    \/ StartKnockout
    \/ SemiFinal1
    \/ SemiFinal2
    \/ Final

KnockoutSpec == KnockoutInit /\ [][KnockoutNext]_vars

InKnockout == rr.stage = "knockout"

\* C12: the survivors at positions 0 and 1 play one semifinal and those at
\* positions 2 and 3 the other, the final is between the two semifinal
\* winners and its winner is the champion simulate_knockout returns; so the
\* champion is one of the four survivors and the two finalists never come
\* from the same semifinal pair.
C12_KnockoutBracket ==
    InKnockout =>
        LET semis == rr.semi_finalists
        IN  /\ rr.winner_sf1 # None => rr.winner_sf1 \in {semis[1], semis[2]}
            /\ rr.winner_sf2 # None => rr.winner_sf2 \in {semis[3], semis[4]}
            /\ rr.champion # None =>
                  /\ rr.champion \in {rr.winner_sf1, rr.winner_sf2}
                  /\ rr.champion \in NameSet(semis)
                  /\ ~ ({rr.winner_sf1, rr.winner_sf2} \subseteq {semis[1], semis[2]})
                  /\ ~ ({rr.winner_sf1, rr.winner_sf2} \subseteq {semis[3], semis[4]})
                  /\ rr.champion = simulate_knockout(teams, semis, rr.draws[1],
                                                     rr.draws[2], rr.draws[3])

\* a finished knockout won from the second semifinal, whose other finalist
\* was the survivor at position 1
C12_Witness ==
    /\ InKnockout
    /\ pc = "done"
    /\ rr.winner_sf1 = rr.semi_finalists[2]
    /\ rr.champion = rr.winner_sf2
    /\ rr.champion = rr.semi_finalists[3]

-----------------------------------------------------------------------------
(* run_monte_carlo over thousands of passes: the progress lines            *)

\* campaign lengths that reach the progress line once and twice
LongRuns == {ProgressEvery, 2 * ProgressEvery}

\* every match of the long campaign is won by ten by its first-listed side
LongDraws == [toss : {1}, bonus : {BonusMin}, raw_a : {170}, raw_b : {160},
              u : {500000}]

\* run_monte_carlo(n) on a fresh instance: entry, lines 354-356
LongRunMonteCarlo ==
    /\ pc = "idle"
    /\ calls = 0
    /\ \E n \in LongRuns : n_simulations' = n
    /\ sim' = 0
    /\ calls' = calls + 1
    /\ pc' = "loop"
    /\ UNCHANGED <<rng, objVars, matchVars, rr, group_standings, qualified_teams,
                   semi_finalists, champion, probabilities, progress, passes>>

\* the shuffle of the long campaign leaves the list in its order
LongShuffles == { <<1, 2, 3, 4, 5, 6, 7, 8>> }

LongPassGroupStage == PassGroupStageOver(LongDraws)

LongPassSuper8 == PassSuper8Over(LongShuffles, LongDraws)

LongPassKnockout == PassKnockoutOver(LongDraws)

LongCampaignNext ==
    \/ LongRunMonteCarlo
    \/ LongPassGroupStage
    \/ LongPassSuper8
    \/ LongPassKnockout
    \/ PassAggregate
    \/ ReturnProbabilities

LongCampaignSpec == CampaignInit /\ [][LongCampaignNext]_vars

\* C14: the progress line reporting k completed passes is issued once for
\* each positive multiple k of 1000 up to N, and when it is issued exactly k
\* passes have been run and aggregated into the counters.
C14_ProgressAfterKPasses ==
    /\ \A i \in 1..Len(progress) :
          /\ progress[i].shown = i * ProgressEvery
          /\ progress[i].aggregated = progress[i].shown
    /\ Returned => Len(progress) = n_simulations \div ProgressEvery

-----------------------------------------------------------------------------
(* The constructor on registries other than the built-in one               *)

\* what the registry tables may hold: __init__ installs whatever
\* _initialize_teams and _get_tournament_groups return, lines 156-157
SampleConfigurations ==
    { [teams |-> initialize_teams, groups |-> get_tournament_groups],
      [teams |-> [initialize_teams EXCEPT !["India"].win_rate_last_10 = 150],
       groups |-> get_tournament_groups],
      [teams |-> [initialize_teams EXCEPT !["Namibia"].elo_rating = 0],
       groups |-> get_tournament_groups],
      [teams |-> initialize_teams,
       groups |-> [get_tournament_groups EXCEPT
                      !["A"] = <<"India", "Pakistan", "United States", "Netherlands">>]] }

\* __init__, lines 154-165: no check of the tables
ConfigInit ==
    /\ \E c \in SampleConfigurations :
          /\ teams = c.teams
          /\ groups = c.groups
    /\ results = EmptyResults
    /\ rng = 0
    /\ InitCampaignVars
    /\ pc = "idle"
    /\ call = NoCall
    /\ ret = None
    /\ rr = NoRoundRobin

ConfigSpec == ConfigInit /\ [][CampaignNext]_vars

RateFields == {"win_rate_last_10", "key_players_strength", "spin_strength", "pace_strength"}

WellFormed(registry, grps) ==
    /\ \A n \in DOMAIN registry :
          /\ registry[n].name = n
          /\ \A f \in RateFields : registry[n][f] >= 0 /\ registry[n][f] <= 100
          /\ registry[n].elo_rating > 0
          /\ \E g \in DOMAIN grps : n \in NameSet(grps[g])
    /\ \A g \in DOMAIN grps :
          /\ Len(grps[g]) >= 2
          /\ Distinct(grps[g])
          /\ NameSet(grps[g]) \subseteq DOMAIN registry
          /\ \A h \in DOMAIN grps : h # g => NameSet(grps[g]) \cap NameSet(grps[h]) = {}

-----------------------------------------------------------------------------
(* simulate_super_8: the split and the survivors                           *)

InSuper8 == rr.stage = "super8"

\* the two sub-groups partition the qualifier list, the round robin in
\* progress is played inside one of them, and the survivors are two of each
Super8Split ==
    InSuper8 =>
        LET group_1 == SubSeq(rr.qualified, 1, 4)
            group_2 == SubSeq(rr.qualified, 5, 8)
        IN  /\ Len(rr.qualified) = 8
            /\ Cardinality(NameSet(group_1)) = 4
            /\ Cardinality(NameSet(group_2)) = 4
            /\ NameSet(group_1) \cap NameSet(group_2) = {}
            /\ NameSet(group_1) \cup NameSet(group_2) = NameSet(rr.qualified)
            /\ rr.names = IF rr.sub = 1 THEN group_1 ELSE group_2
            /\ \A k \in 1..Len(rr.played) : NameSet(rr.played[k]) \subseteq NameSet(rr.names)
            /\ Len(rr.semi_finalists) >= 2 =>
                  /\ rr.semi_finalists[1] # rr.semi_finalists[2]
                  /\ {rr.semi_finalists[1], rr.semi_finalists[2]} \subseteq NameSet(group_1)
            /\ pc = "done" =>
                  /\ Len(rr.semi_finalists) = 4
                  /\ rr.semi_finalists[3] # rr.semi_finalists[4]
                  /\ {rr.semi_finalists[3], rr.semi_finalists[4]} \subseteq NameSet(group_2)

\* the step that picks a sub-group's survivors: nobody left behind has
\* strictly more points than a survivor
SurvivorsByPoints ==
    (InSuper8 /\ Len(rr'.semi_finalists) = Len(rr.semi_finalists) + 2) =>
        LET k == Len(rr.semi_finalists)
            picked == {rr'.semi_finalists[k + 1], rr'.semi_finalists[k + 2]}
        IN  /\ rr.m = NumPairs(Len(rr.names))
            /\ picked \subseteq NameSet(rr.names)
            /\ \A s \in picked, n \in NameSet(rr.names) \ picked :
                  rr.points[n] <= rr.points[s]

\* C16: simulate_super_8 splits the 8 qualifiers into two disjoint sub-groups
\* of 4 whose union is the whole list, and the survivors are exactly two of
\* each sub-group, chosen by points: within a sub-group no non-survivor has
\* strictly more points than a survivor.
C16_Super8SplitAndSurvivors == []Super8Split /\ [][SurvivorsByPoints]_vars

\* a finished Super 8 on a reordered list, where the second sub-group's last
\* survivor is level on points with a competitor left behind
C16_Witness ==
    /\ InSuper8
    /\ pc = "done"
    /\ rr.qualified \notin SampleQualified
    /\ \E n \in NameSet(rr.names) \ NameSet(rr.semi_finalists) :
          rr.points[n] = rr.points[rr.semi_finalists[4]]

-----------------------------------------------------------------------------
(* What a pass reads and writes                                            *)

\* a step of run_single_simulation: the group stage, the Super 8 or the
\* knockout of a pass
PassStep == (pc = "loop" /\ pc' = "super8") \/ pc \in {"super8", "knockout"}

\* the registry, the partition and the counters across one step
RegistryAndCountersFrame ==
    /\ teams' = teams
    /\ groups' = groups
    /\ results' # results => pc = "aggregate"
    /\ PassStep => results' = results

\* C17: a pass leaves self.teams, self.groups and self.results unchanged and
\* reads or writes no mutable state shared with other passes; the counters
\* change only in the aggregation step after a pass, and the registry never
\* changes.
C17_PassFrame ==
    [][RegistryAndCountersFrame /\ (PassStep => rng' = rng)]_vars

-----------------------------------------------------------------------------
(* Order between a competitor's counters                                   *)

\* C18: in every state of a campaign on a fresh simulator each competitor's
\* counters satisfy champion <= semi_final <= super_8 and
\* super_8 = group_winner + group_runner_up.
C18_CountersNested ==
    \A t \in DOMAIN teams :
        /\ Count(results, t, "champion") <= Count(results, t, "semi_final")
        /\ Count(results, t, "semi_final") <= Count(results, t, "super_8")
        /\ Count(results, t, "super_8") =
              Count(results, t, "group_winner") + Count(results, t, "group_runner_up")

\* after two passes: a competitor that reached two semifinals and won one
\* title, and another that qualified without reaching a semifinal
C18_Witness ==
    /\ passes = 2
    /\ pc = "loop"
    /\ \E t \in DOMAIN results :
          /\ results[t]["champion"] = 1
          /\ results[t]["semi_final"] = 2
          /\ results[t]["super_8"] = 2
    /\ \E t \in DOMAIN results :
          /\ results[t]["super_8"] >= 1
          /\ results[t]["semi_final"] = 0

====
